---------------------------- MODULE Spec2Model ----------------------------
(***************************************************************************)
(* A model of the agent service: the agent factory of agents/operator.py   *)
(* (AgentType, ModelProvider, get_available_agents, get_model_provider,    *)
(* get_available_models, get_agent) and the HTTP router of                 *)
(* api/routes/agents.py (Model, list_agents, list_models,                  *)
(* chat_response_streamer, RunRequest, run_agent).                         *)
(*                                                                         *)
(* Strings the code inspects character by character (model identifiers,    *)
(* exception messages, the 404 detail) are sequences of one-character       *)
(* strings.  Strings the code only passes along (messages, user ids,       *)
(* fragment contents) are TLA+ strings.  An Optional value is <<>> for     *)
(* None and <<v>> for v.                                                   *)
(***************************************************************************)
EXTENDS Naturals, Sequences, FiniteSets, TLC

VARIABLES
    fcall,      \* the direct call of a factory function or list endpoint just made
    pc,         \* pc[r]: where request r is in transport / run_agent / the streamer
    path,       \* path[r]: the raw {agent_id} path segment of request r
    raw,        \* raw[r]: the raw JSON body of request r
    agent_id,   \* agent_id[r]: the AgentType member the path was validated to
    body,       \* body[r]: the RunRequest instance the body was validated to
    agent,      \* agent[r]: the agent instance run_agent holds (0: none)
    status,     \* status[r]: the HTTP status of the response (0: none yet)
    detail,     \* detail[r]: the error detail of an HTTPException
    content,    \* content[r]: <<body>> once a non-streaming body was returned
    delivered,  \* delivered[r]: the fragments the streamer has yielded to the caller
    stream,     \* stream[r]: "none" | "open" | "closed" | "broken"
    calls,      \* every builder invocation so far, in order
    agents      \* agents[a]: agent instance a: its builder, its runs, its output

vars == <<fcall, pc, path, raw, agent_id, body, agent, status, detail, content,
          delivered, stream, calls, agents>>

-----------------------------------------------------------------------------
(* Bounds of the model *)

\* The most chunks one streaming run produces (one-request specification).
MaxChunks == 2

\* The number of concurrently handled requests (concurrent specification).
NumRequests == 2

\* The most chunks one streaming run produces (concurrent specification).
MaxConcChunks == 1

-----------------------------------------------------------------------------
(* Optional values *)

None == <<>>

Some(v) == <<v>>

-----------------------------------------------------------------------------
(* agents/operator.py *)

AgentType_SAGE == [enum |-> "AgentType", name |-> "SAGE", value |-> "sage"]

AgentType_SCHOLAR == [enum |-> "AgentType", name |-> "SCHOLAR", value |-> "scholar"]

\* The members of AgentType in definition order (the order of iteration).
AgentType == <<AgentType_SAGE, AgentType_SCHOLAR>>

ModelProvider_OPENAI == [enum |-> "ModelProvider", name |-> "OPENAI", value |-> "openai"]

ModelProvider_GROQ == [enum |-> "ModelProvider", name |-> "GROQ", value |-> "groq"]

ModelProvider == <<ModelProvider_OPENAI, ModelProvider_GROQ>>

\* [agent.value for agent in AgentType]
get_available_agents == [i \in 1..Len(AgentType) |-> AgentType[i].value]

\* str.startswith(prefixes) for a tuple of prefixes
startswith(s, prefixes) ==
    \E p \in prefixes : Len(p) <= Len(s) /\ SubSeq(s, 1, Len(p)) = p

\* "llama"
llama == <<"l", "l", "a", "m", "a">>

\* "mixtral"
mixtral == <<"m", "i", "x", "t", "r", "a", "l">>

get_model_provider_llama_only(model_id) ==
    IF startswith(model_id, {llama})
    THEN ModelProvider_GROQ
    ELSE ModelProvider_OPENAI

get_model_provider(model_id) ==
    IF startswith(model_id, {llama, mixtral})
    THEN ModelProvider_GROQ
    ELSE ModelProvider_OPENAI

\* "gpt-4o"
id_gpt_4o == <<"g", "p", "t", "-", "4", "o">>

\* "o3-mini"
id_o3_mini == <<"o", "3", "-", "m", "i", "n", "i">>

\* "llama-3.3-70b-versatile"
id_llama_70b ==
    <<"l", "l", "a", "m", "a", "-", "3", ".", "3", "-", "7", "0", "b", "-",
      "v", "e", "r", "s", "a", "t", "i", "l", "e">>

\* "llama-3.3-8b-versatile"
id_llama_8b ==
    <<"l", "l", "a", "m", "a", "-", "3", ".", "3", "-", "8", "b", "-",
      "v", "e", "r", "s", "a", "t", "i", "l", "e">>

\* "mixtral-8x7b-32768"
id_mixtral ==
    <<"m", "i", "x", "t", "r", "a", "l", "-", "8", "x", "7", "b", "-",
      "3", "2", "7", "6", "8">>

get_available_models_mixtral_openai ==
    << <<id_gpt_4o, ModelProvider_OPENAI>>,
       <<id_o3_mini, ModelProvider_OPENAI>>,
       <<id_llama_70b, ModelProvider_GROQ>>,
       <<id_llama_8b, ModelProvider_GROQ>>,
       <<id_mixtral, ModelProvider_OPENAI>> >>

get_available_models ==
    << <<id_gpt_4o, ModelProvider_OPENAI>>,
       <<id_o3_mini, ModelProvider_OPENAI>>,
       <<id_llama_70b, ModelProvider_GROQ>>,
       <<id_llama_8b, ModelProvider_GROQ>>,
       <<id_mixtral, ModelProvider_GROQ>> >>

\* The default of get_agent's debug_mode parameter.
get_agent_debug_mode_default == TRUE

\* One invocation of an external builder, with the keyword arguments it is given.
BuilderCall(builder, model_id, user_id, session_id, debug_mode) ==
    [builder |-> builder, model_id |-> model_id, user_id |-> user_id,
     session_id |-> session_id, debug_mode |-> debug_mode]

get_agent_swapped(model_id, agent_type, user_id, session_id, debug_mode, builders) ==
    IF agent_type = AgentType_SAGE
    THEN [calls |-> <<BuilderCall("get_scholar", model_id, user_id, session_id, debug_mode)>>,
          result |-> builders["get_scholar"]]
    ELSE [calls |-> <<BuilderCall("get_sage", model_id, user_id, session_id, debug_mode)>>,
          result |-> builders["get_sage"]]

\* get_agent: the builder invocations it makes, in order, and its result.
\* builders[b] is what an invocation of builder b does (it returns an agent,
\* or raises); an exception of the builder propagates as the result.
get_agent(model_id, agent_type, user_id, session_id, debug_mode, builders) ==
    IF agent_type = AgentType_SAGE
    THEN [calls |-> <<BuilderCall("get_sage", model_id, user_id, session_id, debug_mode)>>,
          result |-> builders["get_sage"]]
    ELSE [calls |-> <<BuilderCall("get_scholar", model_id, user_id, session_id, debug_mode)>>,
          result |-> builders["get_scholar"]]

-----------------------------------------------------------------------------
(* The external collaborators: the two builders and the agents they return *)

BuilderNames == {"get_sage", "get_scholar"}

\* "no key"
err_no_key == <<"n", "o", " ", "k", "e", "y">>

\* The messages str(e) of the exceptions a builder raises; one of them is empty.
Errors == {err_no_key, <<>>}

\* What one builder invocation does: it returns an agent, or raises.
Outcomes == [raised : {FALSE}, error : {<<>>}] \cup [raised : {TRUE}, error : Errors]

\* The chunks of a streaming run: the text of the chunk and the kind of event
\* it reports (the auxiliary output the relay drops).
Chunks == [content : {"a", "b"}, event : {"RunResponse", "ToolCallStarted"}]

\* The chunks the runs of the concurrent specification produce.
ConcChunks == [content : {"a", "b"}, event : {"RunResponse"}]

\* The results of a non-streaming run.
Responses == [content : {"a", "b"}, event : {"RunResponse"}]

\* A new agent instance, as a builder returns it: no run yet.  runs are the
\* calls of arun made on it, produced what its run has put out so far, and
\* run is "none", "called", "running" (a streaming run that returned its
\* generator), "completed" or "raised".
NewAgent(call) ==
    [builder |-> call.builder, model_id |-> call.model_id, runs |-> <<>>,
     produced |-> <<>>, run |-> "none"]

\* The agent table tbl after agent.arun(message, stream=...) is invoked on
\* instance a by request r.
Arun(tbl, a, r, message, streaming) ==
    [tbl EXCEPT ![a].runs =
                    Append(@, [message |-> message, stream |-> streaming, by |-> r]),
                ![a].run = "called"]

-----------------------------------------------------------------------------
(* api/routes/agents.py *)

\* str.replace(old, new) for one-character old and new
replace(s, old, new) == [i \in 1..Len(s) |-> IF s[i] = old THEN new ELSE s[i]]

\* model_list = get_available_models()
model_list == get_available_models

\* model_id.replace('-', '_').replace('.', '_')
ModelName(model_id) == replace(replace(model_id, "-", "_"), ".", "_")

\* The dict { name: model_id for model_id, _ in model_list }: a later entry
\* with the name of an earlier one replaces its value.
ModelDict ==
    LET names == {ModelName(model_list[i][1]) : i \in 1..Len(model_list)}
        last(n) == CHOOSE i \in 1..Len(model_list) :
                      /\ ModelName(model_list[i][1]) = n
                      /\ \A j \in 1..Len(model_list) :
                            ModelName(model_list[j][1]) = n => j <= i
    IN  [n \in names |-> model_list[last(n)][1]]

\* Model = Enum('Model', {...}): one member per name of the dict.
Model == {[enum |-> "Model", name |-> n, value |-> ModelDict[n]] : n \in DOMAIN ModelDict}

\* The attribute name gpt_4o
name_gpt_4o == <<"g", "p", "t", "_", "4", "o">>

\* Model.gpt_4o
Model_gpt_4o == CHOOSE m \in Model : m.name = name_gpt_4o

ValidAgentId_fallback(p) ==
    IF \E i \in 1..Len(AgentType) : AgentType[i].value = p
    THEN Some(AgentType[CHOOSE i \in 1..Len(AgentType) : AgentType[i].value = p])
    ELSE Some(AgentType_SCHOLAR)

\* The transport's conversion of the {agent_id} path segment to AgentType:
\* the member with that value, or None (a validation error).
ValidAgentId(p) ==
    IF \E i \in 1..Len(AgentType) : AgentType[i].value = p
    THEN Some(AgentType[CHOOSE i \in 1..Len(AgentType) : AgentType[i].value = p])
    ELSE None

\* Whether the raw body b validates as a RunRequest: message is required, and
\* model, when given, is the value of a member of Model.
RunRequestValid(b) ==
    /\ b.message # None
    /\ b.model # None => \E m \in Model : m.value = b.model[1]

RunRequest_default_o3_mini(b) ==
    [message |-> b.message[1],
     stream |-> IF b.stream = None THEN TRUE ELSE b.stream[1],
     model |-> IF b.model = None
               THEN CHOOSE m \in Model : m.value = id_o3_mini
               ELSE CHOOSE m \in Model : m.value = b.model[1],
     user_id |-> b.user_id,
     session_id |-> b.session_id]

\* The RunRequest instance of a valid raw body b, with the defaults of the class.
RunRequest(b) ==
    [message |-> b.message[1],
     stream |-> IF b.stream = None THEN TRUE ELSE b.stream[1],
     model |-> IF b.model = None
               THEN Model_gpt_4o
               ELSE CHOOSE m \in Model : m.value = b.model[1],
     user_id |-> b.user_id,
     session_id |-> b.session_id]

\* list_agents
list_agents == get_available_agents

ModelInfo(id, provider) == [id |-> id, provider |-> provider]

\* list_models
list_models ==
    [i \in 1..Len(get_available_models) |->
        ModelInfo(get_available_models[i][1], get_available_models[i][2].value)]

\* "Agent not found: "
AgentNotFound ==
    <<"A", "g", "e", "n", "t", " ", "n", "o", "t", " ", "f", "o", "u", "n", "d", ":", " ">>

NotFoundDetail_no_message(e) == AgentNotFound

\* f"Agent not found: {str(e)}"
NotFoundDetail(e) == AgentNotFound \o e

HTTP_200_OK == 200

HTTP_404_NOT_FOUND == 404

\* The transport's status for a request that fails validation.
HTTP_422_UNPROCESSABLE_ENTITY == 422

\* The transport's status for an exception the handler does not catch.
HTTP_500_INTERNAL_SERVER_ERROR == 500

-----------------------------------------------------------------------------
(* Inputs *)

Requests == 1..NumRequests

\* The one request of the one-request specification.
OneRequest == {1}

\* "gpt-4"
id_gpt_4 == <<"g", "p", "t", "-", "4">>

CatalogIds == {get_available_models[i][1] : i \in 1..Len(get_available_models)}

\* The model values a body carries: the catalog's identifiers, the name of a
\* member (not its value), an unknown identifier and the empty string.
BodyModels == CatalogIds \cup {name_gpt_4o, id_gpt_4, <<>>}

\* The {agent_id} path segments a caller sends.
Paths == {"sage", "scholar", "bogus", "SAGE"}

\* The raw bodies a caller sends; a field that is None is absent.
Bodies ==
    [message : {None, Some("hi"), Some("yo")},
     stream : {None, Some(TRUE), Some(FALSE)},
     model : {None} \cup {Some(m) : m \in BodyModels},
     user_id : {None, Some("u1")},
     session_id : {None, Some("s1")}]

\* The path segments and bodies of the concurrent specification.
ConcPaths == {"sage", "scholar"}

ConcBodies ==
    [message : {Some("hi")},
     stream : {Some(TRUE), Some(FALSE)},
     model : {None},
     user_id : {None},
     session_id : {None}]

\* Python's None, where an AgentType is expected.
PyNone == [enum |-> "NoneType", name |-> "None", value |-> "None"]

PyStr(v) == [enum |-> "str", name |-> "", value |-> v]

\* The agent_id values of a direct call of get_agent.
AgentIdInputs ==
    {AgentType_SAGE, AgentType_SCHOLAR, PyNone, PyStr("sage"), PyStr("bogus")}

\* "Llama", "Mixtral", "gpt"
Llama == <<"L", "l", "a", "m", "a">>

Mixtral == <<"M", "i", "x", "t", "r", "a", "l">>

gpt == <<"g", "p", "t">>

\* The identifiers get_model_provider is called with: the catalog's, and
\* every prefix of "llama", "mixtral", "Llama", "Mixtral" and "gpt", bare,
\* followed by "-3", or preceded by "x".
ModelIdInputs ==
    LET Variants(s) ==
            UNION {{SubSeq(s, 1, k), SubSeq(s, 1, k) \o <<"-", "3">>,
                    <<"x">> \o SubSeq(s, 1, k)} : k \in 0..Len(s)}
    IN  CatalogIds \cup UNION {Variants(s) : s \in {llama, mixtral, Llama, Mixtral, gpt}}

NoCall == [fn |-> "none", args |-> <<>>, result |-> <<>>]

-----------------------------------------------------------------------------
(* The state after start-up: no call made, no request received *)

Init ==
    /\ fcall = NoCall
    /\ pc = [r \in Requests |-> "idle"]
    /\ path = [r \in Requests |-> None]
    /\ raw = [r \in Requests |-> None]
    /\ agent_id = [r \in Requests |-> None]
    /\ body = [r \in Requests |-> None]
    /\ agent = [r \in Requests |-> 0]
    /\ status = [r \in Requests |-> 0]
    /\ detail = [r \in Requests |-> None]
    /\ content = [r \in Requests |-> None]
    /\ delivered = [r \in Requests |-> <<>>]
    /\ stream = [r \in Requests |-> "none"]
    /\ calls = <<>>
    /\ agents = <<>>

http_vars == <<pc, path, raw, agent_id, body, agent, status, detail, content,
               delivered, stream, calls, agents>>

-----------------------------------------------------------------------------
(* Direct calls of the factory's functions and of the list endpoints *)

Call_get_model_provider ==
    /\ fcall = NoCall
    /\ \E model_id \in ModelIdInputs :
          fcall' = [fn |-> "get_model_provider", args |-> <<model_id>>,
                    result |-> get_model_provider(model_id)]
    /\ UNCHANGED http_vars

Call_get_available_models ==
    /\ fcall = NoCall
    /\ fcall' = [fn |-> "get_available_models", args |-> <<>>,
                 result |-> get_available_models]
    /\ UNCHANGED http_vars

Call_get_available_agents ==
    /\ fcall = NoCall
    /\ fcall' = [fn |-> "get_available_agents", args |-> <<>>,
                 result |-> get_available_agents]
    /\ UNCHANGED http_vars

Call_get_agent ==
    /\ fcall = NoCall
    /\ \E model_id \in BodyModels, agent_type \in AgentIdInputs,
          user_id \in {None, Some("u1")}, session_id \in {None, Some("s1")},
          debug_mode \in BOOLEAN, builders \in [BuilderNames -> Outcomes] :
          fcall' = [fn |-> "get_agent",
                    args |-> [model_id |-> model_id, agent_id |-> agent_type,
                              user_id |-> user_id, session_id |-> session_id,
                              debug_mode |-> debug_mode, builders |-> builders],
                    result |-> get_agent(model_id, agent_type, user_id, session_id,
                                         debug_mode, builders)]
    /\ UNCHANGED http_vars

Call_list_agents ==
    /\ fcall = NoCall
    /\ fcall' = [fn |-> "list_agents", args |-> <<>>,
                 result |-> [status |-> HTTP_200_OK, body |-> list_agents]]
    /\ UNCHANGED http_vars

Call_list_models ==
    /\ fcall = NoCall
    /\ fcall' = [fn |-> "list_models", args |-> <<>>,
                 result |-> [status |-> HTTP_200_OK, body |-> list_models]]
    /\ UNCHANGED http_vars

\* The caller has the result; the next call starts from there.
Return ==
    /\ fcall # NoCall
    /\ fcall' = NoCall
    /\ UNCHANGED http_vars

NextPure ==
    \/ Return
    \/ Call_get_model_provider
    \/ Call_get_available_models
    \/ Call_get_available_agents
    \/ Call_get_agent
    \/ Call_list_agents
    \/ Call_list_models

SpecPure == Init /\ [][NextPure]_vars

-----------------------------------------------------------------------------
(* POST /agents/{agent_id}/runs *)

\* The instance a builder returns: a new one at every invocation.
FreshAgent == Len(agents) + 1

Yield_event(chunk) == chunk.event

\* yield chunk.content
Yield(chunk) == chunk.content

\* The transport receives request r and validates its path segment against
\* AgentType and its body against RunRequest; an invalid request is answered
\* with a validation error and run_agent is not called.
Receive(r, paths, bodies) ==
    /\ pc[r] = "idle"
    /\ \E p \in paths, b \in bodies :
          /\ path' = [path EXCEPT ![r] = Some(p)]
          /\ raw' = [raw EXCEPT ![r] = Some(b)]
          /\ IF ValidAgentId(p) = None \/ ~RunRequestValid(b)
             THEN /\ status' = [status EXCEPT ![r] = HTTP_422_UNPROCESSABLE_ENTITY]
                  /\ pc' = [pc EXCEPT ![r] = "done"]
                  /\ UNCHANGED <<agent_id, body>>
             ELSE /\ agent_id' = [agent_id EXCEPT ![r] = ValidAgentId(p)]
                  /\ body' = [body EXCEPT ![r] = Some(RunRequest(b))]
                  /\ pc' = [pc EXCEPT ![r] = "run_agent"]
                  /\ UNCHANGED status
    /\ UNCHANGED <<fcall, agent, detail, content, delivered, stream, calls, agents>>

\* run_agent keeping the agent of an earlier request for the same builder.
run_agent_cached(r) ==
    /\ pc[r] = "run_agent"
    /\ \E builders \in [BuilderNames -> Outcomes] :
          LET rq == body[r][1]
              got == get_agent(rq.model.value, agent_id[r][1], rq.user_id,
                               rq.session_id, get_agent_debug_mode_default, builders)
              kept == {k \in 1..Len(agents) :
                          agents[k].builder = got.calls[Len(got.calls)].builder}
              a == IF kept = {} THEN FreshAgent ELSE CHOOSE k \in kept : TRUE
              made == IF kept = {}
                      THEN Append(agents, NewAgent(got.calls[Len(got.calls)]))
                      ELSE agents
          IN  /\ calls' = calls \o [i \in 1..Len(got.calls) |->
                                      [call |-> got.calls[i], by |-> r,
                                       outcome |-> builders[got.calls[i].builder]]]
              /\ IF got.result.raised
                 THEN /\ status' = [status EXCEPT ![r] = HTTP_404_NOT_FOUND]
                      /\ detail' = [detail EXCEPT ![r] = Some(NotFoundDetail(got.result.error))]
                      /\ pc' = [pc EXCEPT ![r] = "done"]
                      /\ UNCHANGED <<agent, agents, stream>>
                 ELSE /\ agent' = [agent EXCEPT ![r] = a]
                      /\ UNCHANGED detail
                      /\ IF rq.stream
                         THEN /\ agents' = made
                              /\ status' = [status EXCEPT ![r] = HTTP_200_OK]
                              /\ stream' = [stream EXCEPT ![r] = "open"]
                              /\ pc' = [pc EXCEPT ![r] = "streamer"]
                         ELSE /\ agents' = Arun(made, a, r, rq.message, FALSE)
                              /\ pc' = [pc EXCEPT ![r] = "await_arun"]
                              /\ UNCHANGED <<status, stream>>
    /\ UNCHANGED <<fcall, path, raw, agent_id, body, content, delivered>>

\* run_agent up to its first suspension: get_agent; on an exception the 404;
\* else, with stream set, the StreamingResponse over the streamer (not yet
\* started), and without it the call of agent.arun(message, stream=False).
run_agent(r) ==
    /\ pc[r] = "run_agent"
    /\ \E builders \in [BuilderNames -> Outcomes] :
          LET rq == body[r][1]
              got == get_agent(rq.model.value, agent_id[r][1], rq.user_id,
                               rq.session_id, get_agent_debug_mode_default, builders)
              a == FreshAgent
              made == Append(agents, NewAgent(got.calls[Len(got.calls)]))
          IN  /\ calls' = calls \o [i \in 1..Len(got.calls) |->
                                      [call |-> got.calls[i], by |-> r,
                                       outcome |-> builders[got.calls[i].builder]]]
              /\ IF got.result.raised
                 THEN /\ status' = [status EXCEPT ![r] = HTTP_404_NOT_FOUND]
                      /\ detail' = [detail EXCEPT ![r] = Some(NotFoundDetail(got.result.error))]
                      /\ pc' = [pc EXCEPT ![r] = "done"]
                      /\ UNCHANGED <<agent, agents, stream>>
                 ELSE /\ agent' = [agent EXCEPT ![r] = a]
                      /\ UNCHANGED detail
                      /\ IF rq.stream
                         THEN /\ agents' = made
                              /\ status' = [status EXCEPT ![r] = HTTP_200_OK]
                              /\ stream' = [stream EXCEPT ![r] = "open"]
                              /\ pc' = [pc EXCEPT ![r] = "streamer"]
                         ELSE /\ agents' = Arun(made, a, r, rq.message, FALSE)
                              /\ pc' = [pc EXCEPT ![r] = "await_arun"]
                              /\ UNCHANGED <<status, stream>>
    /\ UNCHANGED <<fcall, path, raw, agent_id, body, content, delivered>>

run_agent_return_event(r) ==
    /\ pc[r] = "await_arun"
    /\ \E response \in Responses :
          /\ agents' = [agents EXCEPT ![agent[r]].produced = Append(@, response),
                                      ![agent[r]].run = "completed"]
          /\ content' = [content EXCEPT ![r] = Some(response.event)]
    /\ status' = [status EXCEPT ![r] = HTTP_200_OK]
    /\ pc' = [pc EXCEPT ![r] = "done"]
    /\ UNCHANGED <<fcall, path, raw, agent_id, body, agent, detail, delivered,
                   stream, calls>>

\* The non-streaming run completes: return response.content.
run_agent_return(r) ==
    /\ pc[r] = "await_arun"
    /\ \E response \in Responses :
          /\ agents' = [agents EXCEPT ![agent[r]].produced = Append(@, response),
                                      ![agent[r]].run = "completed"]
          /\ content' = [content EXCEPT ![r] = Some(response.content)]
    /\ status' = [status EXCEPT ![r] = HTTP_200_OK]
    /\ pc' = [pc EXCEPT ![r] = "done"]
    /\ UNCHANGED <<fcall, path, raw, agent_id, body, agent, detail, delivered,
                   stream, calls>>

\* The non-streaming run raises: run_agent does not catch it.
run_agent_raise(r) ==
    /\ pc[r] = "await_arun"
    /\ agents' = [agents EXCEPT ![agent[r]].run = "raised"]
    /\ status' = [status EXCEPT ![r] = HTTP_500_INTERNAL_SERVER_ERROR]
    /\ pc' = [pc EXCEPT ![r] = "done"]
    /\ UNCHANGED <<fcall, path, raw, agent_id, body, agent, detail, content,
                   delivered, stream, calls>>

\* The transport starts the streamer: agent.arun(message, stream=True) is called.
streamer_start(r) ==
    /\ pc[r] = "streamer"
    /\ agents' = Arun(agents, agent[r], r, body[r][1].message, TRUE)
    /\ pc' = [pc EXCEPT ![r] = "await_arun_stream"]
    /\ UNCHANGED <<fcall, path, raw, agent_id, body, agent, status, detail,
                   content, delivered, stream, calls>>

\* The streaming run returns its generator.
streamer_run(r) ==
    /\ pc[r] = "await_arun_stream"
    /\ agents' = [agents EXCEPT ![agent[r]].run = "running"]
    /\ pc' = [pc EXCEPT ![r] = "async_for"]
    /\ UNCHANGED <<fcall, path, raw, agent_id, body, agent, status, detail,
                   content, delivered, stream, calls>>

\* The generator produces a chunk and the streamer yields its content.
streamer_chunk(r, chunks, max) ==
    /\ pc[r] = "async_for"
    /\ Len(agents[agent[r]].produced) < max
    /\ \E chunk \in chunks :
          /\ agents' = [agents EXCEPT ![agent[r]].produced = Append(@, chunk)]
          /\ delivered' = [delivered EXCEPT ![r] = Append(@, Yield(chunk))]
    /\ UNCHANGED <<fcall, pc, path, raw, agent_id, body, agent, status, detail,
                   content, stream, calls>>

\* The generator completes, and the streamer and the response with it.
streamer_end(r) ==
    /\ pc[r] = "async_for"
    /\ agents' = [agents EXCEPT ![agent[r]].run = "completed"]
    /\ stream' = [stream EXCEPT ![r] = "closed"]
    /\ pc' = [pc EXCEPT ![r] = "done"]
    /\ UNCHANGED <<fcall, path, raw, agent_id, body, agent, status, detail,
                   content, delivered, calls>>

streamer_raise_not_found(r) ==
    /\ pc[r] \in {"await_arun_stream", "async_for"}
    /\ agents' = [agents EXCEPT ![agent[r]].run = "raised"]
    /\ stream' = [stream EXCEPT ![r] = "broken"]
    /\ status' = [status EXCEPT ![r] = HTTP_404_NOT_FOUND]
    /\ detail' = [detail EXCEPT ![r] = Some(NotFoundDetail(err_no_key))]
    /\ pc' = [pc EXCEPT ![r] = "done"]
    /\ UNCHANGED <<fcall, path, raw, agent_id, body, agent, content, delivered, calls>>

\* The streaming run raises, at its call or at a chunk: the streamer does not
\* catch it and the response breaks off.
streamer_raise(r) ==
    /\ pc[r] \in {"await_arun_stream", "async_for"}
    /\ agents' = [agents EXCEPT ![agent[r]].run = "raised"]
    /\ stream' = [stream EXCEPT ![r] = "broken"]
    /\ pc' = [pc EXCEPT ![r] = "done"]
    /\ UNCHANGED <<fcall, path, raw, agent_id, body, agent, status, detail,
                   content, delivered, calls>>

\* One request, with every path segment and body.
Next ==
    \E r \in OneRequest :
        \/ Receive(r, Paths, Bodies)
        \/ run_agent(r)
        \/ run_agent_return(r)
        \/ run_agent_raise(r)
        \/ streamer_start(r)
        \/ streamer_run(r)
        \/ streamer_chunk(r, Chunks, MaxChunks)
        \/ streamer_end(r)
        \/ streamer_raise(r)

Spec == Init /\ [][Next]_vars

\* Requests handled concurrently, interleaved at their suspension points.
NextConc ==
    \E r \in Requests :
        \/ Receive(r, ConcPaths, ConcBodies)
        \/ run_agent(r)
        \/ run_agent_return(r)
        \/ run_agent_raise(r)
        \/ streamer_start(r)
        \/ streamer_run(r)
        \/ streamer_chunk(r, ConcChunks, MaxConcChunks)
        \/ streamer_end(r)
        \/ streamer_raise(r)

SpecConc == Init /\ [][NextConc]_vars

-----------------------------------------------------------------------------
(* Properties *)

\* The contents of a sequence of chunks.
Contents(chunks) == [i \in 1..Len(chunks) |-> chunks[i].content]

\* The builder invocations made for request r.
CallsBy(r) == {i \in 1..Len(calls) : calls[i].by = r}

\* The arun calls request r made, as <<instance, index>>.
RunsBy(r) ==
    {ai \in UNION {{<<a, i>> : i \in 1..Len(agents[a].runs)} : a \in 1..Len(agents)} :
        agents[ai[1]].runs[ai[2]].by = r}

\* s begins with p, character by character.
BeginsWith(s, p) == Len(s) >= Len(p) /\ \A i \in 1..Len(p) : s[i] = p[i]

\* t occurs in s.
Contains(s, t) ==
    \E k \in 0..Len(s) :
        k + Len(t) <= Len(s) /\ \A i \in 1..Len(t) : s[k + i] = t[i]

\* C1: a call of get_agent with agent_id AgentType.SAGE invokes the Sage
\* builder once and the Scholar builder not at all; with any other agent_id
\* (SCHOLAR, None, an unrecognized value) it invokes the Scholar builder once
\* and the Sage builder not at all; the builder gets model_id, user_id,
\* session_id and debug_mode unchanged, and what it does (the agent it
\* returns, the exception it raises) is the result of get_agent.
C1_Dispatch ==
    fcall.fn = "get_agent" =>
        LET a == fcall.args
            want == IF a.agent_id.enum = "AgentType" /\ a.agent_id.name = "SAGE"
                    THEN "get_sage"
                    ELSE "get_scholar"
        IN  /\ Len(fcall.result.calls) = 1
            /\ fcall.result.calls[1] =
                  [builder |-> want, model_id |-> a.model_id, user_id |-> a.user_id,
                   session_id |-> a.session_id, debug_mode |-> a.debug_mode]
            /\ fcall.result.result = a.builders[want]

\* An unrecognized agent_id, the string "sage", went to the Scholar builder,
\* whose exception is the result, while the Sage builder would have returned.
C1_Witness ==
    /\ fcall.fn = "get_agent"
    /\ fcall.args.agent_id = PyStr("sage")
    /\ fcall.args.user_id = Some("u1")
    /\ ~fcall.args.debug_mode
    /\ ~fcall.args.builders["get_sage"].raised
    /\ fcall.result.calls[1].builder = "get_scholar"
    /\ fcall.result.result.raised

\* C2: for a run request with stream set whose agent was constructed, the
\* fragments delivered to the caller are, at every moment, the contents of
\* the chunks the agent's streaming run has produced, in the same number and
\* order, and the stream has ended exactly when the run's generator has
\* completed.
C2_StreamRelay ==
    \A r \in Requests :
        (agent[r] # 0 /\ body[r][1].stream) =>
            /\ delivered[r] = Contents(agents[agent[r]].produced)
            /\ stream[r] = "closed" <=> agents[agent[r]].run = "completed"
            /\ stream[r] = "closed" => pc[r] = "done"

\* A stream of two fragments, one of them from a tool-call chunk, has ended.
C2_Witness ==
    \E r \in Requests :
        /\ stream[r] = "closed"
        /\ delivered[r] = <<"a", "b">>
        /\ agents[agent[r]].produced[1].event = "ToolCallStarted"

\* C3: when get_agent raises for a run request, the request ends with status
\* 404 and a detail that contains the exception's message, and no run, streaming
\* or not, of any agent is invoked for the request.
C3_ConstructionFailure ==
    \A i \in 1..Len(calls) :
        calls[i].outcome.raised =>
            LET r == calls[i].by
            IN  /\ pc[r] = "done"
                /\ status[r] = 404
                /\ detail[r] # None
                /\ Contains(detail[r][1], calls[i].outcome.error)
                /\ RunsBy(r) = {}
                /\ agent[r] = 0
                /\ delivered[r] = <<>>
                /\ content[r] = None
                /\ stream[r] = "none"

\* A request ended 404 with the detail "Agent not found: no key".
C3_Witness ==
    \E r \in Requests :
        /\ status[r] = 404
        /\ CallsBy(r) # {}
        /\ detail[r] = Some(AgentNotFound \o <<"n", "o", " ", "k", "e", "y">>)

\* C4: a run request whose path segment is neither "sage" nor "scholar" is
\* answered 422 and causes no call of get_agent or of a builder.
C4_InvalidPath ==
    \A r \in Requests :
        (path[r] # None /\ path[r][1] \notin {"sage", "scholar"}) =>
            /\ status[r] = 422
            /\ pc[r] = "done"
            /\ CallsBy(r) = {}
            /\ agent[r] = 0

\* A request for /agents/bogus/runs with a body that is valid was answered 422.
C4_Witness ==
    \E r \in Requests :
        /\ path[r] = Some("bogus")
        /\ raw[r][1].message = Some("hi")
        /\ raw[r][1].model = None
        /\ status[r] = 422

\* C5: for a run request with stream unset whose agent was constructed,
\* run_agent invokes the non-streaming run once, with the request's message,
\* and never the streaming run; there is no response while the run is
\* pending; and once the run has completed the response is 200 with the
\* content of the run's result as its one body.
C5_NonStreaming ==
    \A r \in Requests :
        (agent[r] # 0 /\ ~body[r][1].stream) =>
            LET ag == agents[agent[r]]
            IN  /\ RunsBy(r) = {<<agent[r], 1>>}
                /\ ag.runs[1] = [message |-> raw[r][1].message[1], stream |-> FALSE, by |-> r]
                /\ stream[r] = "none" /\ delivered[r] = <<>>
                /\ ag.run = "called" => (status[r] = 0 /\ content[r] = None)
                /\ ag.run = "completed" =>
                      /\ Len(ag.produced) = 1
                      /\ status[r] = 200
                      /\ content[r] = Some(ag.produced[1].content)
                /\ status[r] = 200 => ag.run = "completed"

\* A request with stream false was answered 200 with the run's content "b".
C5_Witness ==
    \E r \in Requests :
        /\ raw[r] # None
        /\ raw[r][1].stream = Some(FALSE)
        /\ raw[r][1].message = Some("yo")
        /\ status[r] = 200
        /\ content[r] = Some("b")

\* C6: get_model_provider returns GROQ for every identifier that begins with
\* "llama" or "mixtral" and OPENAI for every other one (the empty string, an
\* identifier that differs in case, an identifier not in the catalog); it
\* always returns one of the two.
C6_ProviderByPrefix ==
    fcall.fn = "get_model_provider" =>
        LET m == fcall.args[1]
            groq == \/ BeginsWith(m, <<"l", "l", "a", "m", "a">>)
                    \/ BeginsWith(m, <<"m", "i", "x", "t", "r", "a", "l">>)
        IN  /\ fcall.result \in {ModelProvider_GROQ, ModelProvider_OPENAI}
            /\ groq => fcall.result = ModelProvider_GROQ
            /\ ~groq => fcall.result = ModelProvider_OPENAI

\* get_model_provider("mixtral-3") returned GROQ.
C6_Witness ==
    /\ fcall.fn = "get_model_provider"
    /\ fcall.args[1] = <<"m", "i", "x", "t", "r", "a", "l", "-", "3">>
    /\ fcall.result.name = "GROQ"

\* C7: get_available_models returns the five catalog entries in declaration
\* order, the provider of each being get_model_provider of its identifier,
\* and the list-models endpoint returns the same entries in the same order
\* as id/provider pairs.
C7_Catalog ==
    LET ids == <<id_gpt_4o, id_o3_mini, id_llama_70b, id_llama_8b, id_mixtral>>
    IN  /\ fcall.fn = "get_available_models" =>
              /\ Len(fcall.result) = 5
              /\ \A i \in 1..5 :
                    /\ fcall.result[i][1] = ids[i]
                    /\ fcall.result[i][2] = get_model_provider(ids[i])
        /\ fcall.fn = "list_models" =>
              /\ Len(fcall.result.body) = 5
              /\ \A i \in 1..5 :
                    fcall.result.body[i] =
                        [id |-> ids[i], provider |-> get_model_provider(ids[i]).value]

\* The list-models endpoint answered with mixtral-8x7b-32768 of groq last.
C7_Witness ==
    /\ fcall.fn = "list_models"
    /\ fcall.result.body[5] = [id |-> id_mixtral, provider |-> "groq"]
    /\ fcall.result.body[1].provider = "openai"

\* C8: for a run request with stream set, when the streaming run fails after
\* k fragments (k >= 0; at the run call itself too), the caller has got those
\* k fragments, in order, and the stream is broken: the status is the 200 the
\* response began with, not 404, the agent was constructed once and the run
\* invoked once for the request.
C8_MidStreamFailure ==
    \A r \in Requests :
        (agent[r] # 0 /\ body[r][1].stream) =>
            LET ag == agents[agent[r]]
            IN  /\ ag.run = "raised" <=> stream[r] = "broken"
                /\ ag.run = "raised" =>
                      /\ pc[r] = "done"
                      /\ delivered[r] = Contents(ag.produced)
                      /\ status[r] = 200
                      /\ detail[r] = None
                      /\ Cardinality(CallsBy(r)) = 1
                      /\ RunsBy(r) = {<<agent[r], 1>>}

\* A stream broke after one fragment.
C8_Witness ==
    \E r \in Requests :
        /\ stream[r] = "broken"
        /\ delivered[r] = <<"b">>

\* C9: however the concurrently handled requests interleave, each request
\* that reaches run_agent makes one get_agent call, no agent instance is held
\* or run by two requests, and what a request is delivered (its fragments,
\* its body) is what the run of its own agent produced.
C9_Isolation ==
    /\ \A r \in Requests :
          /\ Cardinality(CallsBy(r)) = (IF pc[r] \in {"idle", "run_agent"} THEN 0
                                        ELSE IF path[r] # None /\ status[r] = 422 THEN 0
                                        ELSE 1)
          /\ agent[r] # 0 =>
                /\ \A q \in Requests \ {r} : agent[q] # agent[r]
                /\ \A i \in 1..Len(agents[agent[r]].runs) : agents[agent[r]].runs[i].by = r
                /\ \A ai \in RunsBy(r) : ai[1] = agent[r]
                /\ body[r][1].stream =>
                      delivered[r] = Contents(agents[agent[r]].produced)
                /\ ~body[r][1].stream =>
                      /\ delivered[r] = <<>>
                      /\ content[r] # None =>
                            content[r] = Some(agents[agent[r]].produced[1].content)
          /\ agent[r] = 0 => (delivered[r] = <<>> /\ content[r] = None /\ RunsBy(r) = {})
    /\ \A a \in 1..Len(agents) : \E r \in Requests : agent[r] = a

\* Two requests for the same agent type, one streaming and one not, ran
\* interleaved on two instances and got different contents.
C9_Witness ==
    \E r, q \in Requests :
        /\ r # q
        /\ path[r] = path[q]
        /\ agent[r] # 0 /\ agent[q] # 0 /\ agent[r] # agent[q]
        /\ delivered[r] = <<"a">>
        /\ pc[r] = "async_for"
        /\ content[q] = Some("b")

\* C10: the Model enum has one member per catalog entry (no two identifiers
\* get the same member name); the model_id of every get_agent call of
\* run_agent is a catalog identifier; a body whose model is no catalog
\* identifier is answered 422 with no get_agent call; and a body without
\* model goes to get_agent with "gpt-4o", the first catalog entry.
C10_ModelValidated ==
    LET ids == {id_gpt_4o, id_o3_mini, id_llama_70b, id_llama_8b, id_mixtral}
    IN  /\ Cardinality(Model) = Len(get_available_models)
        /\ \A i \in 1..Len(get_available_models) :
              Cardinality({m \in Model : m.value = get_available_models[i][1]}) = 1
        /\ get_available_models[1][1] = <<"g", "p", "t", "-", "4", "o">>
        /\ \A i \in 1..Len(calls) : calls[i].call.model_id \in ids
        /\ \A r \in Requests :
              raw[r] # None =>
                  /\ (raw[r][1].model # None /\ raw[r][1].model[1] \notin ids) =>
                        (status[r] = 422 /\ CallsBy(r) = {} /\ agent[r] = 0)
                  /\ raw[r][1].model = None =>
                        \A i \in CallsBy(r) :
                            calls[i].call.model_id = <<"g", "p", "t", "-", "4", "o">>

\* A body without model reached get_agent with "gpt-4o".
C10_Witness ==
    \E r \in Requests :
        /\ raw[r] # None
        /\ raw[r][1].model = None
        /\ CallsBy(r) # {}
        /\ \A i \in CallsBy(r) : calls[i].call.model_id = id_gpt_4o

=============================================================================
